---- MODULE Spec2Model ----
(***************************************************************************)
(* A model of the streaming ZIP encoder of zip-service (src/src/zip.rs):   *)
(* one ZipWriter session, the hyper body Sender it writes to, and a caller *)
(* that may invoke the public operations in any order.                     *)
(*                                                                         *)
(* Byte payloads are abstracted to their lengths; every chunk handed to    *)
(* the Sender is kept, in order, as a record of its kind, its length and   *)
(* the numeric fields the record writers serialise.                        *)
(*                                                                         *)
(* u32 values are kept exactly, as two 16-bit limbs [hi, lo] (value =      *)
(* hi * 2^16 + lo), because TLC's integers stop at 2^31 - 1.  A byte count *)
(* that is not a u32 (a usize length, the true length of the stream) is    *)
(* the same record with an unbounded hi.                                   *)
(***************************************************************************)
EXTENDS Integers, Sequences, FiniteSets, TLC

\* ------------------------------------------------------------------ bounds

\* start_file calls that get past the misuse check, per session
MaxFiles == 2
\* write calls that get past the misuse check, per session
MaxWrites == 2

\* ------------------------------------------------------- 32-bit arithmetic

\* one limb of a u32: 2^16
Base == 65536

Big(h, l) == [hi |-> h, lo |-> l]
Zero == Big(0, 0)
\* a small count n < 2^16
U(n) == Big(0, n)

\* exact (unbounded) sum of two byte counts
Add(a, b) ==
    LET s == a.lo + b.lo
    IN  [hi |-> a.hi + b.hi + (s \div Base), lo |-> s % Base]

\* `x as u32`: keep the low 32 bits
AsU32(a) == [hi |-> a.hi % Base, lo |-> a.lo]

\* `x as u16`: keep the low 16 bits
AsU16(n) == n % Base

FitsU32(a) == a.hi < Base

\* a + b on u32 leaves the range (debug builds panic, release builds wrap)
AddOverflows(a, b) == ~FitsU32(Add(a, b))

\* the u32 a + b of a build without overflow checks
WrappingAdd(a, b) == AsU32(Add(a, b))

Less(a, b) == a.hi < b.hi \/ (a.hi = b.hi /\ a.lo < b.lo)

\* a - b on u32 leaves the range
SubOverflows(a, b) == Less(a, b)

\* the u32 a - b of a build without overflow checks
WrappingSub(a, b) ==
    LET borrow == IF a.lo < b.lo THEN 1 ELSE 0
    IN  [hi |-> (a.hi - b.hi - borrow + 2 * Base) % Base,
         lo |-> (a.lo + Base - b.lo) % Base]

\* ------------------------------------------------------------------ inputs

\* file names, as UTF-8 byte sequences
FileNames == { <<97>>, <<98, 98>> }

TwoGiB == Big(32768, 0)

\* One write call: the length of the caller's buffer (a usize) and the
\* number of compressed bytes the DEFLATE encoder has put in its output
\* Vec when write_all returns.  The encoder buffers internally, so any
\* call may yield nothing.
WriteCases ==
    { [buf |-> Zero,          out |-> Zero],
      [buf |-> U(5),          out |-> Zero],
      [buf |-> U(5),          out |-> U(3)],
      [buf |-> TwoGiB,        out |-> TwoGiB],
      [buf |-> Big(Base, 5),  out |-> Big(Base - 1, Base - 10)] }

\* bytes DeflateEncoder::finish returns: the flushed remainder and the
\* end-of-stream marker (2 bytes for an empty stream)
FinishCases == { U(2), U(9) }

\* --------------------------------------------------------- record writers

FileMetadata(crc, unc, comp, off, name) ==
    [crc32 |-> crc, uncompressed_size |-> unc, compressed_size |-> comp,
     offset |-> off, file_name |-> name]

\* bytes write_local_file_header puts in the buffer
LocalFileHeader(file) ==
    [kind |-> "local_file_header",
     len |-> U(4 + 2 + 2 + 2 + 2 + 2 + 4 + 4 + 4 + 2 + 2 + Len(file.file_name)),
     flags |-> 8, method |-> 8,
     crc32 |-> 0, compressed_size |-> Zero, uncompressed_size |-> Zero,
     file_name_length |-> AsU16(Len(file.file_name)),
     file_name |-> file.file_name]

\* the size write_local_file_header returns
LocalFileHeaderSize(file) == U(30 + Len(file.file_name))

\* bytes write_data_descriptor puts in the buffer
DataDescriptor(file) ==
    [kind |-> "data_descriptor",
     len |-> U(4 + 4 + 4 + 4),
     crc32 |-> file.crc32,
     compressed_size |-> file.compressed_size,
     uncompressed_size |-> file.uncompressed_size]

\* the size write_data_descriptor returns
DataDescriptorSize == U(16)

\* bytes write_central_directory_header puts in the buffer
CentralDirectoryHeader(file) ==
    [kind |-> "central_directory_header",
     len |-> U(4 + 2 + 2 + 2 + 2 + 2 + 2 + 4 + 4 + 4 + 2 + 2 + 2 + 2 + 2 + 4 + 4
               + Len(file.file_name)),
     flags |-> 8, method |-> 8,
     crc32 |-> file.crc32,
     compressed_size |-> file.compressed_size,
     uncompressed_size |-> file.uncompressed_size,
     file_name_length |-> AsU16(Len(file.file_name)),
     offset |-> file.offset,
     file_name |-> file.file_name]

\* the size write_central_directory_header returns
CentralDirectoryHeaderSize(file) == U(46 + Len(file.file_name))

\* the record without its trailing comment length
EndOfCentralDirectoryRecordNoCommentLength(number_of_entries, offset, size) ==
    [kind |-> "end_of_central_directory",
     len |-> U(4 + 2 + 2 + 2 + 2 + 4 + 4),
     entries_on_disk |-> number_of_entries,
     entries_total |-> number_of_entries,
     size |-> size,
     offset |-> offset]

\* bytes write_end_of_central_directory_record puts in the buffer
EndOfCentralDirectoryRecord(number_of_entries, offset, size) ==
    [kind |-> "end_of_central_directory",
     len |-> U(4 + 2 + 2 + 2 + 2 + 4 + 4 + 2),
     entries_on_disk |-> number_of_entries,
     entries_total |-> number_of_entries,
     size |-> size,
     offset |-> offset]

\* a chunk of compressed payload
Data(n) == [kind |-> "data", len |-> n]

\* ------------------------------------------------------------ CRC hasher

\* The payload is abstracted to chunk lengths, so the hasher is abstracted
\* to a running digest of the lengths it was fed.
HasherNew == 0
HasherUpdate(h, buf) == (h * 7 + buf.lo + buf.hi + 1) % 251
HasherFinalize(h) == h

\* ------------------------------------------------------------------- state

VARIABLES
    sink,                \* chunks the receiving end of the Sender has got
    sink_closed,         \* the receiving end is gone: send_data fails
    file_metadata,       \* ZipWriter.file_metadata
    bytes_written,       \* ZipWriter.bytes_written
    current_file_state,  \* ZipWriter.current_file_state: <<>> or <<state>>
    phase,               \* "active", "consumed" (finish took self), "panicked"
    overflow_checks,     \* the build panics on integer overflow (debug)
    last,                \* the last call and how it ended
    sink_error,          \* the operation whose send_data failed first, or "none"
    fed,                 \* per element of file_metadata: bytes passed to write
    n_started,           \* start_file calls past the misuse check
    n_writes,            \* write calls past the misuse check
    n_calls,             \* calls of public operations after new
    task                 \* the background task of one request (main.rs 29-56)

\* the session and its sink
session == <<sink, sink_closed, file_metadata, bytes_written, current_file_state,
             phase, overflow_checks, last, sink_error, fed, n_started, n_writes,
             n_calls>>

vars == <<sink, sink_closed, file_metadata, bytes_written, current_file_state,
          phase, overflow_checks, last, sink_error, fed, n_started, n_writes,
          n_calls, task>>

None == <<>>
Some(x) == <<x>>
IsSome(o) == o # <<>>
Unwrap(o) == o[1]

Call(op, result) == [op |-> op, result |-> result]

\* the session's first sink failure, once `op` has returned one
FirstError(op) == IF sink_error = "none" THEN op ELSE sink_error

\* no request is being served: the session has some other caller
NoTask == [pc |-> "none", request |-> <<>>, index |-> 0, log |-> <<>>,
           failure |-> "none"]

\* ZipWriter::new
New ==
    /\ sink = <<>>
    /\ sink_closed = FALSE
    /\ file_metadata = <<>>
    /\ bytes_written = Zero
    /\ current_file_state = None
    /\ phase = "active"
    /\ overflow_checks \in BOOLEAN
    /\ last = Call("new", "ok")
    /\ sink_error = "none"
    /\ fed = <<>>
    /\ n_started = 0
    /\ n_writes = 0
    /\ n_calls = 0

\* a session whose caller makes any call at any time
Init == New /\ task = NoTask

\* Sender::send_data in one call of an operation: the first `accepted`
\* chunks of `chunks` reach the receiving end; a later one finds it gone.
Delivered(chunks, accepted) ==
    SubSeq(chunks, 1, IF accepted < Len(chunks) THEN accepted ELSE Len(chunks))

\* how many sends of one call the receiving end may still accept
Acceptable(attempts) == IF sink_closed THEN {0} ELSE 0..attempts

\* ------------------------------------------------------------- start_file

\* the FileMetadata start_file builds (zip.rs 61-67)
NewFileMetadata(bw, name) == FileMetadata(0, Zero, Zero, bw, name)

\* start_file without its check of current_file_state: it starts the new
\* entry over the open one
StartFileUnchecked ==
    /\ phase = "active"
    /\ IsSome(current_file_state)
    /\ \E name \in FileNames :
          LET md == NewFileMetadata(bytes_written, name)
          IN  /\ sink' = Append(sink, LocalFileHeader(md))
              /\ current_file_state' =
                     Some([file_metadata |-> md, hasher |-> HasherNew,
                           encoder |-> Zero])
              /\ bytes_written' = WrappingAdd(bytes_written, LocalFileHeaderSize(md))
    /\ last' = Call("start_file", "ok")
    /\ n_calls' = n_calls + 1
    /\ UNCHANGED <<sink_closed, file_metadata, phase, overflow_checks, sink_error,
                   fed, n_started, n_writes>>

\* start_file called while an entry is open (zip.rs 57-59)
StartFileMisuse ==
    /\ phase = "active"
    /\ IsSome(current_file_state)
    /\ phase' = "panicked"
    /\ last' = Call("start_file", "panic")
    /\ n_calls' = n_calls + 1
    /\ UNCHANGED <<sink, sink_closed, file_metadata, bytes_written,
                   current_file_state, overflow_checks, sink_error, fed,
                   n_started, n_writes>>

\* start_file installing the entry and advancing bytes_written before the
\* header is sent
StartFileInstallingFirst(name, accepted) ==
    /\ phase = "active"
    /\ ~IsSome(current_file_state)
    /\ n_started < MaxFiles
    /\ n_started' = n_started + 1
    /\ n_calls' = n_calls + 1
    /\ LET md == NewFileMetadata(bytes_written, name)
       IN  /\ current_file_state' =
                  Some([file_metadata |-> md, hasher |-> HasherNew,
                        encoder |-> Zero])
           /\ bytes_written' = WrappingAdd(bytes_written, LocalFileHeaderSize(md))
           /\ IF accepted = 0
              THEN /\ sink_closed' = TRUE
                   /\ last' = Call("start_file", "err")
                   /\ sink_error' = FirstError("start_file")
                   /\ UNCHANGED sink
              ELSE /\ sink' = Append(sink, LocalFileHeader(md))
                   /\ last' = Call("start_file", "ok")
                   /\ UNCHANGED <<sink_closed, sink_error>>
    /\ UNCHANGED <<file_metadata, phase, overflow_checks, fed, n_writes>>

StartFile(name, accepted) ==
    /\ phase = "active"
    /\ ~IsSome(current_file_state)
    /\ n_started < MaxFiles
    /\ n_started' = n_started + 1
    /\ n_calls' = n_calls + 1
    /\ LET md == NewFileMetadata(bytes_written, name)
           header_size == LocalFileHeaderSize(md)
       IN  IF accepted = 0
           THEN \* send_data fails: `?` returns the error
                /\ sink_closed' = TRUE
                /\ last' = Call("start_file", "err")
                /\ sink_error' = FirstError("start_file")
                /\ UNCHANGED <<sink, bytes_written, current_file_state, phase>>
           ELSE /\ sink' = Append(sink, LocalFileHeader(md))
                /\ current_file_state' =
                       Some([file_metadata |-> md, hasher |-> HasherNew,
                             encoder |-> Zero])
                /\ IF overflow_checks /\ AddOverflows(bytes_written, header_size)
                   THEN /\ phase' = "panicked"
                        /\ last' = Call("start_file", "panic")
                        /\ UNCHANGED sink_error
                        /\ UNCHANGED bytes_written
                   ELSE /\ bytes_written' = WrappingAdd(bytes_written, header_size)
                        /\ last' = Call("start_file", "ok")
                        /\ UNCHANGED sink_error
                        /\ UNCHANGED phase
                /\ UNCHANGED sink_closed
    /\ UNCHANGED <<file_metadata, overflow_checks, fed, n_writes>>

\* ------------------------------------------------------------------ write

\* write called while no entry is open (zip.rs 114)
WriteMisuse ==
    /\ phase = "active"
    /\ ~IsSome(current_file_state)
    /\ phase' = "panicked"
    /\ last' = Call("write", "panic")
    /\ n_calls' = n_calls + 1
    /\ UNCHANGED <<sink, sink_closed, file_metadata, bytes_written,
                   current_file_state, overflow_checks, sink_error, fed,
                   n_started, n_writes>>

Write(case, accepted) ==
    /\ phase = "active"
    /\ IsSome(current_file_state)
    /\ n_writes < MaxWrites
    /\ n_writes' = n_writes + 1
    /\ n_calls' = n_calls + 1
    /\ LET cur == Unwrap(current_file_state)
           md == cur.file_metadata
           buf_len == AsU32(case.buf)
           out_len == AsU32(case.out)
           md1 == [md EXCEPT !.uncompressed_size = WrappingAdd(@, buf_len)]
           cur1 == [file_metadata |-> md1,
                    hasher |-> HasherUpdate(cur.hasher, case.buf),
                    encoder |-> Add(cur.encoder, case.buf)]
           md2 == [md1 EXCEPT !.compressed_size = WrappingAdd(@, out_len)]
           cur2 == [cur1 EXCEPT !.file_metadata = md2]
       IN  IF overflow_checks /\ AddOverflows(md.uncompressed_size, buf_len)
           THEN /\ phase' = "panicked"
                /\ last' = Call("write", "panic")
                /\ UNCHANGED sink_error
                /\ UNCHANGED <<sink, sink_closed, current_file_state>>
           ELSE IF overflow_checks /\ AddOverflows(md1.compressed_size, out_len)
           THEN /\ phase' = "panicked"
                /\ last' = Call("write", "panic")
                /\ UNCHANGED sink_error
                /\ current_file_state' = Some(cur1)
                /\ UNCHANGED <<sink, sink_closed>>
           ELSE /\ current_file_state' = Some(cur2)
                /\ IF accepted = 0
                   THEN /\ sink_closed' = TRUE
                        /\ last' = Call("write", "err")
                        /\ sink_error' = FirstError("write")
                        /\ UNCHANGED sink
                   ELSE /\ sink' = Append(sink, Data(case.out))
                        /\ last' = Call("write", "ok")
                        /\ UNCHANGED sink_error
                        /\ UNCHANGED sink_closed
                /\ UNCHANGED phase
    /\ UNCHANGED <<file_metadata, bytes_written, overflow_checks, fed, n_started>>

\* ------------------------------------------------------------ finish_file

\* finish_file called while no entry is open: the unwrap of None (zip.rs 119)
FinishFileMisuse ==
    /\ phase = "active"
    /\ ~IsSome(current_file_state)
    /\ phase' = "panicked"
    /\ last' = Call("finish_file", "panic")
    /\ n_calls' = n_calls + 1
    /\ UNCHANGED <<sink, sink_closed, file_metadata, bytes_written,
                   current_file_state, overflow_checks, sink_error, fed,
                   n_started, n_writes>>

\* finish_file counting the data descriptor only
FinishFileAdvanceDescriptorOnly(md, data_descriptor_size) ==
    <<data_descriptor_size>>

\* the u32s finish_file adds to bytes_written (zip.rs 136)
FinishFileAdvance(md, data_descriptor_size) ==
    <<md.compressed_size, data_descriptor_size>>

RECURSIVE SumOverflows(_, _)
\* adding the u32s of `terms` to `acc`, left to right, leaves the range
SumOverflows(acc, terms) ==
    IF terms = <<>> THEN FALSE
    ELSE AddOverflows(acc, Head(terms))
         \/ SumOverflows(WrappingAdd(acc, Head(terms)), Tail(terms))

RECURSIVE WrappingSum(_, _)
WrappingSum(acc, terms) ==
    IF terms = <<>> THEN acc
    ELSE WrappingSum(WrappingAdd(acc, Head(terms)), Tail(terms))

\* finish_file dropping the Results of its two send_data calls instead of
\* returning the error
FinishFileIgnoringSendErrors(remaining, accepted) ==
    /\ phase = "active"
    /\ IsSome(current_file_state)
    /\ n_calls' = n_calls + 1
    /\ current_file_state' = None
    /\ LET cur == Unwrap(current_file_state)
           md == [cur.file_metadata EXCEPT !.crc32 = HasherFinalize(cur.hasher)]
           md1 == [md EXCEPT !.compressed_size = WrappingAdd(@, AsU32(remaining))]
           chunks == <<Data(remaining), DataDescriptor(md1)>>
       IN  /\ sink' = sink \o Delivered(chunks, accepted)
           /\ sink_closed' = (sink_closed \/ accepted < Len(chunks))
           /\ bytes_written' =
                  WrappingSum(bytes_written, FinishFileAdvance(md1, DataDescriptorSize))
           /\ file_metadata' = Append(file_metadata, md1)
           /\ fed' = Append(fed, cur.encoder)
           /\ last' = Call("finish_file", "ok")
    /\ UNCHANGED <<phase, overflow_checks, sink_error, n_started, n_writes>>

\* finish_file borrowing the open entry instead of taking it: a send error
\* leaves the entry open
FinishFileKeepingEntry(remaining, accepted) ==
    /\ phase = "active"
    /\ IsSome(current_file_state)
    /\ n_calls' = n_calls + 1
    /\ LET cur == Unwrap(current_file_state)
           md == [cur.file_metadata EXCEPT !.crc32 = HasherFinalize(cur.hasher)]
           md1 == [md EXCEPT !.compressed_size = WrappingAdd(@, AsU32(remaining))]
           chunks == <<Data(remaining), DataDescriptor(md1)>>
       IN  /\ sink' = sink \o Delivered(chunks, accepted)
           /\ IF accepted < Len(chunks)
              THEN /\ sink_closed' = TRUE
                   /\ last' = Call("finish_file", "err")
                   /\ sink_error' = FirstError("finish_file")
                   /\ UNCHANGED <<file_metadata, bytes_written, fed,
                                  current_file_state>>
              ELSE /\ bytes_written' =
                          WrappingSum(bytes_written,
                                      FinishFileAdvance(md1, DataDescriptorSize))
                   /\ file_metadata' = Append(file_metadata, md1)
                   /\ fed' = Append(fed, cur.encoder)
                   /\ current_file_state' = None
                   /\ last' = Call("finish_file", "ok")
                   /\ UNCHANGED <<sink_closed, sink_error>>
    /\ UNCHANGED <<phase, overflow_checks, n_started, n_writes>>

FinishFile(remaining, accepted) ==
    /\ phase = "active"
    /\ IsSome(current_file_state)
    /\ n_calls' = n_calls + 1
    \* std::mem::take leaves None behind, whatever happens next
    /\ current_file_state' = None
    /\ LET cur == Unwrap(current_file_state)
           md == [cur.file_metadata EXCEPT !.crc32 = HasherFinalize(cur.hasher)]
           rem_len == AsU32(remaining)
           md1 == [md EXCEPT !.compressed_size = WrappingAdd(@, rem_len)]
           chunks == <<Data(remaining), DataDescriptor(md1)>>
           terms == FinishFileAdvance(md1, DataDescriptorSize)
       IN  IF overflow_checks /\ AddOverflows(md.compressed_size, rem_len)
           THEN /\ phase' = "panicked"
                /\ last' = Call("finish_file", "panic")
                /\ UNCHANGED sink_error
                /\ UNCHANGED <<sink, sink_closed, file_metadata, bytes_written, fed>>
           ELSE /\ sink' = sink \o Delivered(chunks, accepted)
                /\ IF accepted < Len(chunks)
                   THEN /\ sink_closed' = TRUE
                        /\ last' = Call("finish_file", "err")
                        /\ sink_error' = FirstError("finish_file")
                        /\ UNCHANGED <<file_metadata, bytes_written, fed, phase>>
                   ELSE IF overflow_checks /\ SumOverflows(bytes_written, terms)
                   THEN /\ phase' = "panicked"
                        /\ last' = Call("finish_file", "panic")
                        /\ UNCHANGED sink_error
                        /\ UNCHANGED <<sink_closed, file_metadata, bytes_written, fed>>
                   ELSE /\ bytes_written' = WrappingSum(bytes_written, terms)
                        /\ file_metadata' = Append(file_metadata, md1)
                        /\ fed' = Append(fed, cur.encoder)
                        /\ last' = Call("finish_file", "ok")
                        /\ UNCHANGED sink_error
                        /\ UNCHANGED <<sink_closed, phase>>
    /\ UNCHANGED <<overflow_checks, n_started, n_writes>>

\* ----------------------------------------------------------------- finish

RECURSIVE CentralDirectory(_, _, _, _, _)
\* The loop of finish from entry i on, with `bw` the running bytes_written
\* and `accepted` the sends the receiving end still takes: how it ends, the
\* resulting bytes_written and the number of headers delivered.
CentralDirectory(files, i, bw, accepted, checks) ==
    IF i > Len(files)
    THEN [status |-> "done", bytes_written |-> bw, sent |-> i - 1]
    ELSE IF i > accepted
    THEN [status |-> "err", bytes_written |-> bw, sent |-> i - 1]
    ELSE LET size == CentralDirectoryHeaderSize(files[i])
         IN  IF checks /\ AddOverflows(bw, size)
             THEN [status |-> "panic", bytes_written |-> bw, sent |-> i]
             ELSE CentralDirectory(files, i + 1, WrappingAdd(bw, size),
                                   accepted, checks)

\* the entry count finish passes on: `self.file_metadata.len() as u16`
NumberOfEntries(files) == AsU16(Len(files))

\* finish draining file_metadata while it writes the central directory
FinishDraining(accepted) ==
    /\ phase = "active"
    /\ n_calls' = n_calls + 1
    /\ LET n == Len(file_metadata)
           sent == IF accepted < n THEN accepted ELSE n
           headers == [j \in 1..sent |-> CentralDirectoryHeader(file_metadata[j])]
           sizes == [j \in 1..sent |-> CentralDirectoryHeaderSize(file_metadata[j])]
           bw == WrappingSum(bytes_written, sizes)
           record == EndOfCentralDirectoryRecord(
                         NumberOfEntries(file_metadata), bytes_written,
                         WrappingSub(bw, bytes_written))
       IN  /\ bytes_written' = bw
           /\ file_metadata' = <<>>
           /\ phase' = "consumed"
           /\ IF accepted < n + 1
              THEN /\ sink' = sink \o headers
                   /\ sink_closed' = TRUE
                   /\ last' = Call("finish", "err")
                   /\ sink_error' = FirstError("finish")
              ELSE /\ sink' = (sink \o headers) \o <<record>>
                   /\ last' = Call("finish", "ok")
                   /\ UNCHANGED <<sink_closed, sink_error>>
    /\ UNCHANGED <<current_file_state, overflow_checks, fed, n_started, n_writes>>

\* finish may be called whether or not an entry is open: it takes self and
\* never looks at current_file_state
Finish(accepted) ==
    /\ phase = "active"
    /\ n_calls' = n_calls + 1
    /\ LET offset == bytes_written
           n == Len(file_metadata)
           cd == CentralDirectory(file_metadata, 1, bytes_written, accepted,
                                  overflow_checks)
           headers == [j \in 1..cd.sent |-> CentralDirectoryHeader(file_metadata[j])]
           size == WrappingSub(cd.bytes_written, offset)
           record == EndOfCentralDirectoryRecord(
                         NumberOfEntries(file_metadata), offset, size)
       IN  /\ bytes_written' = cd.bytes_written
           /\ IF cd.status = "panic"
                 \/ (cd.status = "done" /\ overflow_checks
                     /\ SubOverflows(cd.bytes_written, offset))
              THEN /\ sink' = sink \o headers
                   /\ phase' = "panicked"
                   /\ last' = Call("finish", "panic")
                   /\ UNCHANGED sink_error
                   /\ UNCHANGED sink_closed
              ELSE IF cd.status = "err" \/ accepted < n + 1
              THEN /\ sink' = sink \o headers
                   /\ sink_closed' = TRUE
                   /\ phase' = "consumed"
                   /\ last' = Call("finish", "err")
                   /\ sink_error' = FirstError("finish")
              ELSE /\ sink' = (sink \o headers) \o <<record>>
                   /\ phase' = "consumed"
                   /\ last' = Call("finish", "ok")
                   /\ UNCHANGED sink_error
                   /\ UNCHANGED sink_closed
    /\ UNCHANGED <<file_metadata, current_file_state, overflow_checks, fed,
                   n_started, n_writes>>

\* ------------------------------------------------------------ environment

\* the HTTP client goes away: the Body is dropped and every later send_data
\* fails
ClientDisconnect ==
    /\ phase = "active"
    /\ ~sink_closed
    /\ sink_closed' = TRUE
    /\ last' = Call("disconnect", "ok")
    /\ UNCHANGED <<sink, file_metadata, bytes_written, current_file_state, phase,
                   overflow_checks, sink_error, fed, n_started, n_writes, n_calls>>

\* any call at any time, by a caller that is not the task
Next ==
    \/ StartFileMisuse /\ UNCHANGED task
    \/ \E name \in FileNames : \E accepted \in Acceptable(1) :
           StartFile(name, accepted) /\ UNCHANGED task
    \/ WriteMisuse /\ UNCHANGED task
    \/ \E case \in WriteCases : \E accepted \in Acceptable(1) :
           Write(case, accepted) /\ UNCHANGED task
    \/ FinishFileMisuse /\ UNCHANGED task
    \/ \E remaining \in FinishCases : \E accepted \in Acceptable(2) :
           FinishFile(remaining, accepted) /\ UNCHANGED task
    \/ \E accepted \in Acceptable(Len(file_metadata) + 1) :
           Finish(accepted) /\ UNCHANGED task
    \/ ClientDisconnect /\ UNCHANGED task

Spec == Init /\ [][Next]_vars

\* ------------------------------------------ the background task of a request

\* the parsed request bodies: the file names, in request order
Requests ==
    UNION { [1..n -> FileNames] : n \in 0..MaxFiles }

\* the task as tokio::spawn starts it (main.rs 29-32)
TaskStart(request) ==
    [pc |-> IF request = <<>> THEN "finish" ELSE "start_file",
     request |-> request, index |-> IF request = <<>> THEN 0 ELSE 1,
     log |-> <<>>, failure |-> "none"]

TaskInit == New /\ task \in { TaskStart(request) : request \in Requests }

\* .unwrap() on the Result of a call: anything but Ok panics the task
UnwrapIgnoringErr(result, next) == IF result = "panic" THEN "panicked" ELSE next

Unwrapped(result, next) == IF result = "ok" THEN next ELSE "panicked"

\* the file name of the entry the loop is at, taken from the end of the request
EntryNameReversed(t) == t.request[Len(t.request) + 1 - t.index]

\* entry.filename of the entry the loop is at (main.rs 32-34)
EntryName(t) == t.request[t.index]

\* the end of the loop body: the next entry, or finish after the last one
\* (main.rs 32, 52-55)
NextEntry(t) ==
    IF t.index < Len(t.request)
    THEN [t EXCEPT !.pc = "start_file", !.index = t.index + 1]
    ELSE [t EXCEPT !.pc = "finish"]

\* the task after a step: what it did is logged, and where it goes
TaskStep(event, pc, failure) ==
    [task EXCEPT !.log = Append(@, event), !.pc = pc,
                 !.failure = IF pc = "panicked" /\ @ = "none" THEN failure ELSE @]

\* zip.start_file(&entry.filename).await.unwrap() (main.rs 34)
TaskStartFile(accepted) ==
    /\ task.pc = "start_file"
    /\ StartFile(EntryName(task), accepted)
    /\ task' = TaskStep("start_file", Unwrapped(last'.result, "get"), "session")

\* a fetch whose failure leaves the entry empty and lets the task carry on
TaskGetSkippingFailed(outcome) ==
    /\ task.pc = "get"
    /\ task' = [task EXCEPT !.log = Append(@, "get"),
                            !.pc = IF outcome = "ok" THEN "body" ELSE "finish_file",
                            !.failure = IF outcome = "ok" THEN @ ELSE "upstream"]
    /\ UNCHANGED session

\* Uri::from_str(..).unwrap() and client.get(uri).await.unwrap()
\* (main.rs 36-42)
TaskGet(outcome) ==
    /\ task.pc = "get"
    /\ task' = TaskStep("get", Unwrapped(outcome, "body"), "upstream")
    /\ UNCHANGED session

\* body.next() yields a chunk: zip.write(&buf.unwrap()).await.unwrap()
\* (main.rs 45-47)
TaskChunk(case, accepted) ==
    /\ task.pc = "body"
    /\ Write(case, accepted)
    /\ task' = TaskStep("write", Unwrapped(last'.result, "body"), "session")

\* body.next() yields an error: buf.unwrap() panics (main.rs 47)
TaskChunkError ==
    /\ task.pc = "body"
    /\ task' = TaskStep("body_error", "panicked", "upstream")
    /\ UNCHANGED session

\* body.next() yields None: the while loop ends (main.rs 45, 48)
TaskBodyEnd ==
    /\ task.pc = "body"
    /\ task' = [task EXCEPT !.pc = "finish_file"]
    /\ UNCHANGED session

\* zip.finish_file().await.unwrap() (main.rs 51)
TaskFinishFile(remaining, accepted) ==
    /\ task.pc = "finish_file"
    /\ FinishFile(remaining, accepted)
    /\ task' = [TaskStep("finish_file",
                         Unwrapped(last'.result, NextEntry(task).pc), "session")
                   EXCEPT !.index = IF last'.result = "ok"
                                    THEN NextEntry(task).index ELSE @]

\* let _ = zip.finish().await (main.rs 55): the Result is dropped
TaskFinish(accepted) ==
    /\ task.pc = "finish"
    /\ Finish(accepted)
    /\ task' = TaskStep("finish",
                        IF last'.result = "panic" THEN "panicked" ELSE "done",
                        "session")

\* the client goes away while the task runs
TaskDisconnect ==
    /\ task.pc \notin {"none", "done", "panicked"}
    /\ ClientDisconnect
    /\ UNCHANGED task

TaskNext ==
    \/ \E accepted \in Acceptable(1) : TaskStartFile(accepted)
    \/ \E outcome \in {"ok", "err"} : TaskGet(outcome)
    \/ \E case \in WriteCases : \E accepted \in Acceptable(1) :
           TaskChunk(case, accepted)
    \/ TaskChunkError
    \/ TaskBodyEnd
    \/ \E remaining \in FinishCases : \E accepted \in Acceptable(2) :
           TaskFinishFile(remaining, accepted)
    \/ \E accepted \in Acceptable(Len(file_metadata) + 1) : TaskFinish(accepted)
    \/ TaskDisconnect

\* one request, with any upstream and any client
TaskSpec == TaskInit /\ [][TaskNext]_vars

\* the steps of a request whose fetches all complete and whose sink accepts
\* every chunk
HappyNext ==
    \/ TaskStartFile(1)
    \/ TaskGet("ok")
    \/ \E case \in WriteCases : TaskChunk(case, 1)
    \/ TaskBodyEnd
    \/ \E remaining \in FinishCases : TaskFinishFile(remaining, 2)
    \/ TaskFinish(Len(file_metadata) + 1)

\* such a request, with the task scheduled until it ends
HappySpec == TaskInit /\ [][HappyNext]_vars /\ WF_vars(HappyNext)

\* ================================================================= claims

\* ------------------------------------------------- reading the byte stream

RECURSIVE TotalLen(_)
\* the exact number of bytes in a sequence of chunks
TotalLen(chunks) ==
    IF chunks = <<>> THEN Zero
    ELSE Add(Head(chunks).len, TotalLen(Tail(chunks)))

\* the exact number of bytes the sink has been handed
SinkLen == TotalLen(sink)

\* the indices of the chunks of one kind
Positions(kind) == { j \in 1..Len(sink) : sink[j].kind = kind }

\* the index of the i-th chunk of one kind
NthPosition(kind, i) ==
    CHOOSE j \in Positions(kind) :
        Cardinality({ k \in Positions(kind) : k < j }) = i - 1

\* the exact number of bytes handed to the sink before chunk j
BytesBefore(j) == TotalLen(SubSeq(sink, 1, j - 1))

\* compressed_size of the entry being written, zero when there is none
OpenCompressedSize ==
    IF IsSome(current_file_state)
    THEN Unwrap(current_file_state).file_metadata.compressed_size
    ELSE Zero

\* a call of `op` is made in this step
Calls(op) == n_calls' = n_calls + 1 /\ last'.op = op

\* ------------------------------------------------------------------- C1

C2_OffsetIsBytesBeforeLocalHeader ==
    \A i \in 1..Len(file_metadata) :
        file_metadata[i].offset = BytesBefore(NthPosition("local_file_header", i))

\* ------------------------------------------------------------------- C3

\* C3: finish called while an entry is open does not succeed, and hands no
\* central directory header and no end-of-central-directory record to the
\* sink.
C3_FinishWhileOpenIsFatal ==
    [][(Calls("finish") /\ IsSome(current_file_state))
          => (last'.result # "ok" /\ sink' = sink)]_vars

\* ------------------------------------------------------------------- C4

\* a call that breaks the protocol of start_file, write or finish_file
Misuse ==
    \/ Calls("start_file") /\ IsSome(current_file_state)
    \/ Calls("write") /\ ~IsSome(current_file_state)
    \/ Calls("finish_file") /\ ~IsSome(current_file_state)

\* C4: start_file while an entry is open, and write or finish_file while
\* none is, panic before any byte is handed to the sink and before
\* file_metadata or bytes_written change.
C4_MisusePanicsWithoutEffect ==
    [][Misuse => /\ last'.result = "panic"
                 /\ phase' = "panicked"
                 /\ sink' = sink
                 /\ file_metadata' = file_metadata
                 /\ bytes_written' = bytes_written]_vars

\* start_file has panicked on an open entry that already emitted bytes
C4_Witness ==
    /\ last = Call("start_file", "panic")
    /\ IsSome(current_file_state)
    /\ sink[Len(sink)].kind = "data"
    /\ OpenCompressedSize # Zero

\* ------------------------------------------------------------------- C5

\* where a reader of the stream stands after one more chunk
ShapeStep(at, kind) ==
    CASE at = "between_entries" /\ kind = "local_file_header" -> "in_entry"
      [] at = "between_entries" /\ kind = "central_directory_header" -> "in_directory"
      [] at = "between_entries" /\ kind = "end_of_central_directory" -> "at_end"
      [] at = "in_entry" /\ kind = "data" -> "in_entry"
      [] at = "in_entry" /\ kind = "data_descriptor" -> "between_entries"
      [] at = "in_directory" /\ kind = "central_directory_header" -> "in_directory"
      [] at = "in_directory" /\ kind = "end_of_central_directory" -> "at_end"
      [] OTHER -> "malformed"

RECURSIVE Shape(_, _)
\* where a reader that started at `at` stands after `chunks`
Shape(at, chunks) ==
    IF chunks = <<>> THEN at
    ELSE Shape(ShapeStep(at, Head(chunks).kind), Tail(chunks))

\* C5: the chunks delivered so far are always the beginning of
\* (local header, compressed chunk*, data descriptor)*, central directory
\* header*, end-of-central-directory record, and are all of it once finish
\* has succeeded.
C5_StreamShape ==
    /\ Shape("between_entries", sink) # "malformed"
    /\ last = Call("finish", "ok") => Shape("between_entries", sink) = "at_end"

\* ------------------------------------------------------------------- C6

\* the chunks of one kind, in order
Chunks(kind) == SelectSeq(sink, LAMBDA c : c.kind = kind)

\* the index of the first central directory header, or of the
\* end-of-central-directory record when the directory is empty
DirectoryStart ==
    IF Positions("central_directory_header") = {} THEN Len(sink)
    ELSE NthPosition("central_directory_header", 1)

\* C6: when finish succeeds, the end-of-central-directory record's entry
\* counts equal the number of central directory headers emitted, its offset
\* the number of bytes delivered before the first of them, and its size the
\* sum of their lengths.
C6_EndRecordDescribesDirectory ==
    last = Call("finish", "ok") =>
        LET record == sink[Len(sink)]
            headers == Chunks("central_directory_header")
        IN  /\ record.kind = "end_of_central_directory"
            /\ record.entries_total = Len(headers)
            /\ record.entries_on_disk = Len(headers)
            /\ record.offset = BytesBefore(DirectoryStart)
            /\ record.size = TotalLen(headers)

\* ------------------------------------------------------------------- C7

\* the bytes delivered between the local file header and the data
\* descriptor of the i-th finished entry
PayloadLen(i) ==
    TotalLen(SubSeq(sink, NthPosition("local_file_header", i) + 1,
                          NthPosition("data_descriptor", i) - 1))

\* C7: no counter is ever stored reduced modulo 2^32: while the session has
\* not failed, the open entry's uncompressed_size is the number of bytes
\* passed to write, every finished entry's sizes are the true ones, and
\* bytes_written plus the open entry's compressed_size is the true length
\* of the stream.
C7_NoSilentWrap ==
    (phase # "panicked" /\ sink_error = "none") =>
        /\ IsSome(current_file_state) =>
               Unwrap(current_file_state).file_metadata.uncompressed_size
                   = Unwrap(current_file_state).encoder
        /\ \A i \in 1..Len(file_metadata) :
               /\ file_metadata[i].uncompressed_size = fed[i]
               /\ file_metadata[i].compressed_size = PayloadLen(i)
        /\ phase = "active" =>
               Add(bytes_written, OpenCompressedSize) = SinkLen

\* ------------------------------------------------------------------- C8

\* C8: once a send_data has failed inside an operation, which then returned
\* the error, nothing more reaches the sink and no later call succeeds.
C8_SinkFailureIsFinal ==
    [][/\ (sink_error = "none" /\ sink_error' # "none")
           => (last'.result = "err" /\ last'.op = sink_error' /\ sink_closed')
       /\ sink_error # "none"
           => /\ sink' = sink
              /\ n_calls' # n_calls => last'.result # "ok"]_vars

\* a write failed at the sink and a later finish_file returned the error
C8_Witness ==
    /\ sink_error = "write"
    /\ last = Call("finish_file", "err")
    /\ sink[Len(sink)].kind = "local_file_header"

\* ------------------------------------------------------------------- C9

\* C9: when finish is the first call after new and succeeds, the sink has
\* got exactly one chunk: a 22-byte end-of-central-directory record with
\* zero entry counts, zero size and zero offset.
C9_EmptyArchive ==
    (n_calls = 1 /\ last = Call("finish", "ok")) =>
        /\ Len(sink) = 1
        /\ sink[1].kind = "end_of_central_directory"
        /\ sink[1].len = U(22)
        /\ sink[1].entries_on_disk = 0 /\ sink[1].entries_total = 0
        /\ sink[1].size = Zero /\ sink[1].offset = Zero

\* finish has succeeded as the first call of the session
C9_Witness ==
    n_calls = 1 /\ last = Call("finish", "ok") /\ phase = "consumed"

\* ------------------------------------------------------------------ C10

\* C10: the compressed_size in each finished entry's data descriptor is the
\* number of bytes delivered between its local file header and that
\* descriptor, and its uncompressed_size is the sum of the lengths of the
\* chunks passed to write for the entry.
C10_DescriptorSizesAreExact ==
    \A i \in 1..Len(file_metadata) :
        LET descriptor == sink[NthPosition("data_descriptor", i)]
        IN  /\ descriptor.compressed_size = PayloadLen(i)
            /\ descriptor.uncompressed_size = fed[i]

\* ------------------------------------------------------------------ C11

\* C11: after a successful finish the stream holds one central directory
\* header per entry completed by finish_file, in that order, each with the
\* crc32 and sizes of the entry's data descriptor, the file name of its
\* local file header and the offset at which that local header starts.
C11_DirectoryMirrorsEntries ==
    last = Call("finish", "ok") =>
        LET headers == Chunks("central_directory_header")
        IN  /\ Len(headers) = Len(file_metadata)
            /\ \A i \in 1..Len(headers) :
                   LET descriptor == sink[NthPosition("data_descriptor", i)]
                       local == NthPosition("local_file_header", i)
                   IN  /\ headers[i].crc32 = descriptor.crc32
                       /\ headers[i].compressed_size = descriptor.compressed_size
                       /\ headers[i].uncompressed_size = descriptor.uncompressed_size
                       /\ headers[i].file_name = sink[local].file_name
                       /\ headers[i].offset = BytesBefore(local)

\* ------------------------------------------------------------------ C12

\* how many times the task has done `event`
Count(event) == Len(SelectSeq(task.log, LAMBDA e : e = event))

\* the task's steps follow, entry after entry, the order
\* first, second, write*, finish_file, with finish last of all and only
\* after the finish_file of the last entry
OrderedLog(first, second) ==
    \A i \in 1..Len(task.log) :
        LET e == task.log[i]
            p == IF i = 1 THEN "none" ELSE task.log[i - 1]
        IN  /\ e = first => p \in {"none", "finish_file"}
            /\ e = second => p = first
            /\ e \in {"write", "body_error", "finish_file"} =>
                   p \in {"get", "start_file", "write"} \ {first}
            /\ e = "finish" =>
                   /\ p \in {"none", "finish_file"}
                   /\ i = Len(task.log)
                   /\ Len(SelectSeq(SubSeq(task.log, 1, i),
                                    LAMBDA f : f = "finish_file"))
                        = Len(task.request)

\* the local file headers delivered carry the request's file names, in
\* request order
EntriesInRequestOrder ==
    LET headers == Chunks("local_file_header")
    IN  /\ Len(headers) <= Len(task.request)
        /\ \A i \in 1..Len(headers) : headers[i].file_name = task.request[i]

\* a task that ran to its end served every entry and called finish once
RanToCompletion ==
    task.pc = "done" =>
        /\ Count("start_file") = Len(task.request)
        /\ Count("get") = Len(task.request)
        /\ Count("finish_file") = Len(task.request)
        /\ Count("finish") = 1

\* C12 (as stated): the task processes the entries in request order and,
\* for each entry, issues the upstream GET before calling start_file, then
\* passes every body chunk to write, then calls finish_file; finish is
\* called exactly once, after the finish_file of the last entry.
C12_GetBeforeStartFile ==
    /\ OrderedLog("get", "start_file")
    /\ EntriesInRequestOrder
    /\ RanToCompletion

\* C12 (amended): the same, with start_file(name) called before the
\* upstream GET of the entry is issued.
C12_StartFileBeforeGet ==
    /\ OrderedLog("start_file", "get")
    /\ EntriesInRequestOrder
    /\ RanToCompletion

C12_Witness ==
    /\ task.pc = "done"
    /\ Len(task.request) = 2
    /\ task.request[1] # task.request[2]
    /\ Count("write") = 2
    /\ last = Call("finish", "ok")

\* ------------------------------------------------------------------ C13

\* C13: if a sink emission fails before finish during a request, the task
\* never calls finish and never delivers a central directory header or an
\* end-of-central-directory record for that request.
C13_NoDirectoryAfterSinkFailure ==
    sink_error \in {"start_file", "write", "finish_file"} =>
        /\ Chunks("central_directory_header") = <<>>
        /\ Chunks("end_of_central_directory") = <<>>
        /\ Count("finish") = 0
        /\ task.pc = "panicked"
        /\ task.failure = "session"

C13_Witness ==
    /\ sink_error = "write"
    /\ task.pc = "panicked"
    /\ Len(file_metadata) = 1
    /\ Len(task.request) = 2
    /\ sink[Len(sink)].kind = "local_file_header"

\* ------------------------------------------------------------------ C15

\* C15 (as stated): when the upstream fetch for an entry fails, no local
\* file header, payload or data descriptor for that entry is delivered to
\* the sink, no later entry is started, and finish is never called.
C15_NothingWrittenForFailedEntry ==
    task.failure = "upstream" =>
        /\ Len(Chunks("local_file_header")) < task.index
        /\ Len(Chunks("data_descriptor")) < task.index
        /\ Count("start_file") <= task.index
        /\ Count("finish") = 0

\* C15 (amended): when the upstream fetch for an entry fails, the task
\* stops for good: start_file has already been called for that entry, so its
\* local file header (and the compressed bytes of the chunks that arrived
\* before a failing body chunk) may have been delivered, but no data
\* descriptor for it is, no later entry is started, finish is never called
\* and no central directory is delivered.
C15_FailedFetchAbandonsSession ==
    task.failure = "upstream" =>
        /\ task.pc = "panicked"
        /\ Count("start_file") = task.index
        /\ Len(Chunks("local_file_header")) = task.index
        /\ Chunks("local_file_header")[task.index].file_name = EntryName(task)
        /\ Count("finish_file") = task.index - 1
        /\ Len(Chunks("data_descriptor")) = task.index - 1
        /\ Len(file_metadata) = task.index - 1
        /\ IsSome(current_file_state)
        /\ Count("finish") = 0
        /\ Chunks("central_directory_header") = <<>>
        /\ Chunks("end_of_central_directory") = <<>>

C15_Witness ==
    /\ task.failure = "upstream"
    /\ task.index = 2
    /\ task.log[Len(task.log)] = "get"
    /\ sink[Len(sink)].kind = "local_file_header"
    /\ ~sink_closed

\* ------------------------------------------------------------------ C16

\* the task has ended: it returned after finish, or it panicked
Ended == task.pc \in {"done", "panicked"}

\* finish was called and succeeded: the end-of-central-directory record is
\* the last chunk delivered and the session, with its Sender, is gone
Finished ==
    /\ task.pc = "done"
    /\ Count("finish") = 1
    /\ last = Call("finish", "ok")
    /\ sink # <<>>
    /\ sink[Len(sink)].kind = "end_of_central_directory"
    /\ phase = "consumed"

\* C16 (as stated): for a request in which every upstream fetch completes
\* and the sink accepts every chunk, the task never stops short of finish:
\* whenever it has ended, finish has been called, the
\* end-of-central-directory record is the last chunk delivered and the
\* session is gone.
C16_EndsFinished == Ended => Finished

\* ------------------------------------------------------------------ C17

\* C17: start_file, write and finish leave file_metadata as it is; a
\* successful finish_file keeps the elements it has and appends one, the
\* entry that was open, and leaves no entry open.
C17_EntriesAppendOnly ==
    [][/\ (Calls("start_file") \/ Calls("write") \/ Calls("finish"))
           => file_metadata' = file_metadata
       /\ (Calls("finish_file") /\ last'.result = "ok")
           => /\ IsSome(current_file_state)
              /\ Len(file_metadata') = Len(file_metadata) + 1
              /\ SubSeq(file_metadata', 1, Len(file_metadata)) = file_metadata
              /\ LET open == Unwrap(current_file_state).file_metadata
                     added == file_metadata'[Len(file_metadata')]
                 IN  /\ added.file_name = open.file_name
                     /\ added.offset = open.offset
                     /\ added.uncompressed_size = open.uncompressed_size
              /\ current_file_state' = None]_vars

\* finish has written the directory of two finished entries
C17_Witness ==
    /\ last = Call("finish", "ok")
    /\ Len(file_metadata) = 2
    /\ file_metadata[1].file_name # file_metadata[2].file_name

\* ------------------------------------------------------------------ C18

\* C18: in every state reached through successful operations in which no
\* entry is open, bytes_written equals the total number of bytes delivered
\* to the sink.
C18_BytesWrittenExactBetweenEntries ==
    (phase = "active" /\ sink_error = "none" /\ ~IsSome(current_file_state))
        => bytes_written = SinkLen

\* ------------------------------------------------------------------ C19

\* C19: a start_file whose header is rejected by the sink returns the error
\* with no entry open and with sink, bytes_written and file_metadata as they
\* were.
C19_FailedStartFileChangesNothing ==
    [][(Calls("start_file") /\ last'.result = "err")
          => /\ ~IsSome(current_file_state')
             /\ current_file_state' = current_file_state
             /\ bytes_written' = bytes_written
             /\ file_metadata' = file_metadata
             /\ sink' = sink]_vars

\* the start_file of a second entry has failed at the sink
C19_Witness ==
    /\ last = Call("start_file", "err")
    /\ sink_error = "start_file"
    /\ Len(file_metadata) = 1

\* ------------------------------------------------------------------ C20

\* C20: a finish_file that fails at a send returns the error with no entry
\* open, file_metadata and bytes_written as they were, and from then on no
\* central directory header reaches the sink.
C20_FailedFinishFileDropsEntry ==
    [][/\ (Calls("finish_file") /\ last'.result = "err")
           => /\ IsSome(current_file_state)
              /\ current_file_state' = None
              /\ file_metadata' = file_metadata
              /\ bytes_written' = bytes_written
       /\ sink_error = "finish_file"
           => /\ sink' = sink
              /\ file_metadata' = file_metadata]_vars

\* finish_file has failed at its data descriptor, after the last compressed
\* bytes were delivered
C20_Witness ==
    /\ last = Call("finish_file", "err")
    /\ sink_error = "finish_file"
    /\ ~IsSome(current_file_state)
    /\ sink[Len(sink)].kind = "data"
    /\ Len(Chunks("data")) > Len(Chunks("data_descriptor")) + 1

====
